---- MODULE Spec2Model ----
(***************************************************************************)
(* Movement orchestrator of the sprite collision engine                    *)
(* (environment/sprite.py, environment/utils.py,                           *)
(* environment/abstractsprite.py).                                         *)
(*                                                                         *)
(* Coordinates are integers in units of 1e-5 of the frame, so that the     *)
(* frame [0,1] is 0..FrameMax and the 1e-5 tolerance of the resolvers is   *)
(* one unit.  Arithmetic is exact: the rounding of IEEE doubles is not     *)
(* represented.                                                            *)
(*                                                                         *)
(* A scene holds three bodies of one shape: squares at angle 0 anywhere on *)
(* a grid, or circles whose centres lie on one horizontal line (the        *)
(* circle/circle geometry is evaluated for axis-aligned centres only, and  *)
(* a circle scene is moved against at most one other body).  The           *)
(* shape-pair dispatches are modelled for these two pairs.                 *)
(*                                                                         *)
(* The resolver, the snapper, the distance queries and the overlap         *)
(* predicates are also run on two bodies alone (PairSpec, AheadSpec), with *)
(* triangles among them; of the entries for triangles the branches that    *)
(* read the bounds are modelled.                                           *)
(***************************************************************************)
EXTENDS Integers, Sequences, FiniteSets, TLC

\* ---------------------------------------------------------------- scale
\* 1.0 (the upper edge of the frame) in model units.
FrameMax == 100000
\* The 1e-5 added by the overlap resolvers, in model units.
Eps == 1
\* 1 / sqrt(pi) in model units (0.56419): sqrt(area / pi) = sqrt(area) * InvSqrtPi
InvSqrtPi == 56419

\* ---------------------------------------------------------------- bounds
\* Grid columns 0..MaxKx from which the bodies' initial x positions are drawn.
MaxKx == 4

Step == FrameMax \div 10
RowStep == 2 * Step
BaseX == 5 * Step
BaseY == 5 * Step
\* scale of every body of a scene that is moved: 0.2
Scale == 2 * Step

Bodies == {1, 2, 3}
XS == {BaseX + k * Step : k \in 0..MaxKx}
\* two rows: bodies of one row face each other, bodies of different rows touch
YS == {BaseY, BaseY + RowStep}
Positions == {<<x, y>> : x \in XS, y \in YS}
RowPositions == {<<x, BaseY>> : x \in XS}
\* motion vectors offered to move: the four axis-aligned ones, zero, two diagonals
Motions == {<<Step, 0>>, <<-Step, 0>>, <<0, Step>>, <<0, -Step>>,
            <<0, 0>>, <<Step, Step>>, <<-Step, Step>>}
\* the others argument of the top-level call (a list; None is a flag of the call)
OthersArgs == {<<>>, <<2>>, <<2, 3>>}

Directions == {"up", "right", "down", "left"}

VARIABLES
  body,     \* body[b]: _scale, _angle, _centered_path and prop of body b
  shape,    \* shape[b]: Sprite.shape of body b
  pos,      \* pos[b] = <<x, y>>: Sprite._position of body b
  pos0,     \* the positions when the top-level move was called
  motion,   \* the motion argument of the top-level call (passed down unchanged)
  keep,     \* keep_in_frame (passed down unchanged)
  args,     \* the others argument of the top-level call: [none, others]
  stack,    \* the active invocations of Sprite.move, innermost last
  status    \* "idle", "running", "done", "fatal" (exit), "raised" (exception)

vars == <<body, shape, pos, pos0, motion, keep, args, stack, status>>

\* ---------------------------------------------------------------- geometry
Abs(n) == IF n < 0 THEN -n ELSE n
Min(a, b) == IF a <= b THEN a ELSE b
Max(a, b) == IF a >= b THEN a ELSE b
Sign(n) == IF n < 0 THEN -1 ELSE IF n > 0 THEN 1 ELSE 0

Pair(a, b) == <<shape[a], shape[b]>>
SquareSquare == <<"square", "square">>
CircleCircle == <<"circle", "circle">>
SquareTriangle == <<"square", "triangle">>
TriangleSquare == <<"triangle", "square">>
TriangleTriangle == <<"triangle", "triangle">>
CircleTriangle == <<"circle", "triangle">>
TriangleCircle == <<"triangle", "circle">>

\* n * f for a factor f given in model units (f / FrameMax), rounded half up
Times(n, f) == (n * f + FrameMax \div 2) \div FrameMax

\* The equilateral triangle of unit area, apex up: half of its base, the height
\* of the apex above the centre and the depth of the base below it
TriangleHalfBase == 75984
TriangleApex == 87738
TriangleBase == 43869

\* constants.SHAPES[kind]: the distances from the centre to the four sides of
\* the bounding box of the canonical outline (left, down, right, up)
outline(kind) ==
  IF kind = "triangle"
  THEN <<TriangleHalfBase, TriangleBase, TriangleHalfBase, TriangleApex>>
  ELSE IF kind = "circle"
  THEN <<InvSqrtPi, InvSqrtPi, InvSqrtPi, InvSqrtPi>>
  ELSE <<FrameMax \div 2, FrameMax \div 2, FrameMax \div 2, FrameMax \div 2>>

\* Affine2D().scale(f) on the box of a path: a negative factor reflects the
\* path through the centre
scale_box(box, f) ==
  IF f >= 0
  THEN <<Times(box[1], f), Times(box[2], f), Times(box[3], f), Times(box[4], f)>>
  ELSE <<Times(box[3], -f), Times(box[4], -f), Times(box[1], -f), Times(box[2], -f)>>

\* Affine2D().rotate_deg(a) on the box of a path, a a multiple of 90
rotate_box(box, a) ==
  CASE a % 360 = 0   -> box
    [] a % 360 = 90  -> <<box[4], box[1], box[2], box[3]>>
    [] a % 360 = 180 -> <<box[3], box[4], box[1], box[2]>>
    [] a % 360 = 270 -> <<box[2], box[3], box[4], box[1]>>

\* AbstractSprite._reset_centered_path: the path of shape kind at scale s and
\* angle a.  A path is the canonical outline (of unit area) it was made from,
\* its linear size, its rotation and the box of its vertices.
reset_centered_path(kind, s, a) ==
  [shape |-> kind, size |-> s, angle |-> a % 360,
   box |-> rotate_box(scale_box(outline(kind), s), a)]

\* Sprite._geometrical_properties on a path: sqrt(area / pi) for a circle,
\* sqrt(area) for a square, left as it is (None is 0) for a triangle.  The area
\* of a path of linear size s is s * s.
geometrical_properties(kind, path, old) ==
  IF kind = "circle" THEN Times(Abs(path.size), InvSqrtPi)
  ELSE IF kind = "square" THEN Abs(path.size)
  ELSE old

\* Sprite.__init__
NewSprite(kind, s, a) ==
  [scale |-> s, angle |-> a, path |-> reset_centered_path(kind, s, a),
   prop |-> geometrical_properties(kind, reset_centered_path(kind, s, a), 0)]

\* self.prop: radius of a circle, side of a square
prop(b) == body[b].prop

\* Distance from the position to the polygon's boundary along either axis:
\* half the side of a square (at an angle that is a multiple of 90), the
\* radius of a circle.
half_extent(b) == body[b].path.box[3]

\* Distances from the position to the four sides of the bounding box
\* (left, down, right, up)
extents(b) == body[b].path.box

\* AbstractSprite.bounds: (min x, min y, max x, max y) of the polygon
bounds(p, b) ==
  <<p[b][1] - extents(b)[1], p[b][2] - extents(b)[2],
    p[b][1] + extents(b)[3], p[b][2] + extents(b)[4]>>

\* A faulty offsets: the position is not subtracted from the bounds
offsets_absolute(p, b) ==
  [bottom_left |-> <<Abs(bounds(p, b)[1]), Abs(bounds(p, b)[2])>>,
   top_right   |-> <<Abs(bounds(p, b)[3]), Abs(bounds(p, b)[4])>>]

\* AbstractSprite.offsets: distance of the bounds from the position
offsets(p, b) ==
  [bottom_left |-> <<Abs(bounds(p, b)[1] - p[b][1]), Abs(bounds(p, b)[2] - p[b][2])>>,
   top_right   |-> <<Abs(bounds(p, b)[3] - p[b][1]), Abs(bounds(p, b)[4] - p[b][2])>>]

\* numpy.clip(v, lo, hi)
Clip(v, lo, hi) == Min(Max(v, lo), hi)

\* p with body b displaced by d
Shift(p, b, d) == [p EXCEPT ![b] = <<p[b][1] + d[1], p[b][2] + d[2]>>]

\* The bounding boxes of a and b share a point
boxes_meet(p, a, b) ==
  LET ba == bounds(p, a)
      bb == bounds(p, b)
  IN  /\ ba[1] <= bb[3] /\ bb[1] <= ba[3]
      /\ ba[2] <= bb[4] /\ bb[2] <= ba[4]

\* AbstractSprite.vertices of a triangle: apex, lower left, lower right
vertices(p, t) ==
  LET box == bounds(p, t)
  IN  <<<<p[t][1], box[4]>>, <<box[1], box[2]>>, <<box[3], box[2]>>>>

\* (v - u) x (w - u): negative when w lies to the right of the line from u to v
Cross(u, v, w) ==
  (v[1] - u[1]) * (w[2] - u[2]) - (v[2] - u[2]) * (w[1] - u[1])

\* The box of q is not wholly outside one of the slanted sides of the
\* triangle t: with boxes that meet, the closed triangle and the closed box
\* share a point
triangle_meets_box(p, t, q) ==
  LET v   == vertices(p, t)
      box == bounds(p, q)
  IN  /\ Cross(v[2], v[1], <<box[3], box[2]>>) <= 0
      /\ Cross(v[1], v[3], <<box[1], box[2]>>) <= 0

\* Sprite.check_collision: the two (closed) polygons share a point.  Squares
\* are their boxes; so are two circles with centres on one axis-parallel line.
check_collision(p, a, b) ==
  LET t == IF body[a].path.shape = "triangle" THEN a ELSE b
  IN  /\ boxes_meet(p, a, b)
      /\ (body[a].path.shape = "triangle") # (body[b].path.shape = "triangle")
           => triangle_meets_box(p, t, a + b - t)

\* utils.circle_circle: norm(pos1 - pos2) <= rad1 + rad2, compared on the
\* squares (the two tests on the components keep the squares small)
circle_circle(pos1, pos2, rad1, rad2) ==
  /\ Abs(pos1[1] - pos2[1]) <= rad1 + rad2
  /\ Abs(pos1[2] - pos2[2]) <= rad1 + rad2
  /\ (pos1[1] - pos2[1]) * (pos1[1] - pos2[1])
       + (pos1[2] - pos2[2]) * (pos1[2] - pos2[2])
     <= (rad1 + rad2) * (rad1 + rad2)

\* utils.triangle_circle, lines 159-161: the vertex v lies within the circle
vertex_within(v, cpos, rad) ==
  /\ Abs(v[1] - cpos[1]) <= rad
  /\ Abs(v[2] - cpos[2]) <= rad
  /\ (v[1] - cpos[1]) * (v[1] - cpos[1]) + (v[2] - cpos[2]) * (v[2] - cpos[2])
       <= rad * rad

\* utils.triangle_circle, lines 164-167: "circle center within triangle".  The
\* products are numpy's elementwise ones: for each edge the x component of
\* edge * (cpos - vertex) is compared with its y component.
centre_within(tvert, cpos) ==
  \A i \in 1..3 :
    LET u == tvert[i]
        v == tvert[(i % 3) + 1]
    IN  (v[1] - u[1]) * (cpos[1] - u[1]) >= (v[2] - u[2]) * (cpos[2] - u[2])

\* utils.triangle_circle, lines 170-189: the foot of the perpendicular from
\* the centre falls within an edge and the centre is at most rad from the
\* line of that edge.  The distance |cross| / lens is compared as
\* |cross| <= rad * lens, and lens, the length of an edge of the equilateral
\* triangle, is the length of its base.
edge_within(tvert, cpos, rad) ==
  \E i \in 1..3 :
    LET u    == tvert[i]
        v    == tvert[(i % 3) + 1]
        k    == (cpos[1] - u[1]) * (v[1] - u[1]) + (cpos[2] - u[2]) * (v[2] - u[2])
        lens == tvert[3][1] - tvert[2][1]
    IN  /\ k > 0
        /\ k < (v[1] - u[1]) * (v[1] - u[1]) + (v[2] - u[2]) * (v[2] - u[2])
        /\ Abs(Cross(u, v, cpos)) <= rad * lens

\* utils.triangle_circle
triangle_circle(tvert, cpos, rad) ==
  \/ \E i \in 1..3 : vertex_within(tvert[i], cpos, rad)
  \/ centre_within(tvert, cpos)
  \/ edge_within(tvert, cpos, rad)

\* utils.opposite
opposite(d) ==
  CASE d = "right" -> "left"
    [] d = "left"  -> "right"
    [] d = "up"    -> "down"
    [] d = "down"  -> "up"

\* utils.get_motion_direction; "exit" stands for exit("unexpected direction")
get_motion_direction(m) ==
  IF m[1] = 0 /\ m[2] > 0 THEN "up"
  ELSE IF m[2] = 0 /\ m[1] > 0 THEN "right"
  ELSE IF m[1] = 0 /\ m[2] < 0 THEN "down"
  ELSE IF m[2] = 0 /\ m[1] < 0 THEN "left"
  ELSE "exit"

\* utils.circle_circle_position: where s1 lies relative to s2
circle_circle_position(p, s1, s2) ==
  (IF p[s1][1] < p[s2][1] THEN {"left"} ELSE {}) \cup
  (IF p[s1][1] > p[s2][1] THEN {"right"} ELSE {}) \cup
  (IF p[s1][2] < p[s2][2] THEN {"down"} ELSE {}) \cup
  (IF p[s1][2] > p[s2][2] THEN {"up"} ELSE {})

\* utils.square_square_position: where s1 lies relative to s2
square_square_position(p, s1, s2) ==
  (IF p[s1][1] <= bounds(p, s2)[1] THEN {"left"} ELSE {}) \cup
  (IF p[s1][1] >= bounds(p, s2)[3] THEN {"right"} ELSE {}) \cup
  (IF p[s1][2] <= bounds(p, s2)[2] THEN {"down"} ELSE {}) \cup
  (IF p[s1][2] >= bounds(p, s2)[4] THEN {"up"} ELSE {})

\* utils.get_relative_positions
get_relative_positions(p, s1, s2) ==
  CASE Pair(s1, s2) = CircleCircle -> circle_circle_position(p, s1, s2)
    [] Pair(s1, s2) = SquareSquare -> square_square_position(p, s1, s2)

\* ------------------------------------------------- circle/circle contact points
\* Length of the segment between the two centres (axis-aligned centres).
centre_distance(p, a, b) ==
  CASE p[a][2] = p[b][2] -> Abs(p[a][1] - p[b][1])
    [] p[a][1] = p[b][1] -> Abs(p[a][2] - p[b][2])

\* LineString([self.position, other.position]).intersection(c.contours) is a
\* point: the segment reaches the contour of c (c is a or b).
contour_hit_exists(p, a, b, c) ==
  centre_distance(p, a, b) > 0 /\ centre_distance(p, a, b) >= half_extent(c)

\* That point: on the contour of a towards b, or on the contour of b towards a.
contour_hit(p, a, b, c) ==
  LET ux == Sign(p[b][1] - p[a][1])
      uy == Sign(p[b][2] - p[a][2])
  IN  IF c = a
      THEN <<p[a][1] + ux * half_extent(a), p[a][2] + uy * half_extent(a)>>
      ELSE <<p[b][1] - ux * half_extent(b), p[b][2] - uy * half_extent(b)>>

\* p1.y, p2.x, ... of an empty intersection raises
circle_circle_raises(p, a, b) ==
  ~(contour_hit_exists(p, a, b, a) /\ contour_hit_exists(p, a, b, b))

\* ---------------------------------------------------------------- distances
\* AbstractSprite.circle_circle_distance
circle_circle_distance(p, a, b, d) ==
  LET p1 == contour_hit(p, a, b, a)
      p2 == contour_hit(p, a, b, b)
  IN  IF d = "down" THEN p1[2] - p2[2]
      ELSE IF d = "up" THEN p2[2] - p1[2]
      ELSE IF d = "right" THEN p2[1] - p1[1]
      ELSE p1[1] - p2[1]

\* AbstractSprite.square_square_distance
square_square_distance(p, a, b, d) ==
  IF d = "down" THEN bounds(p, a)[2] - bounds(p, b)[4]
  ELSE IF d = "up" THEN bounds(p, b)[2] - bounds(p, a)[4]
  ELSE IF d = "right" THEN bounds(p, b)[1] - bounds(p, a)[3]
  ELSE bounds(p, a)[1] - bounds(p, b)[3]

\* AbstractSprite.triangle_triangle_distance, the branches decided by the
\* bounds: lines 1204, 1219, 1234, 1249
triangle_triangle_distance(p, a, b, d) ==
  IF d = "down" THEN bounds(p, a)[2] - bounds(p, b)[4]
  ELSE IF d = "up" THEN bounds(p, b)[2] - bounds(p, a)[4]
  ELSE IF d = "right" THEN bounds(p, b)[1] - bounds(p, a)[3]
  ELSE bounds(p, b)[3] - bounds(p, a)[1]

\* AbstractSprite.circle_triangle_distance, the branches decided by the
\* bounds: lines 1022 and 1035
circle_triangle_distance(p, a, b, d) ==
  IF d = "down" THEN bounds(p, b)[4] - (p[a][2] - prop(a)) + Eps
  ELSE (p[a][2] + prop(a)) - bounds(p, b)[2] + Eps

\* AbstractSprite.triangle_circle_distance, the branches decided by the
\* bounds: lines 1106 and 1109
triangle_circle_distance(p, a, b, d) ==
  IF d = "down" THEN bounds(p, a)[2] - (p[b][2] + prop(b))
  ELSE p[b][2] - prop(b) - bounds(p, a)[4]

\* utils._get_distance
get_distance(p, a, b, d) ==
  CASE Pair(a, b) = CircleCircle -> circle_circle_distance(p, a, b, d)
    [] Pair(a, b) = SquareSquare -> square_square_distance(p, a, b, d)
    [] Pair(a, b) = TriangleTriangle -> triangle_triangle_distance(p, a, b, d)
    [] Pair(a, b) = CircleTriangle -> circle_triangle_distance(p, a, b, d)
    [] Pair(a, b) = TriangleCircle -> triangle_circle_distance(p, a, b, d)

\* utils._get_distance raises (an empty intersection in the circle/circle entry)
get_distance_raises(p, a, b, d) ==
  Pair(a, b) = CircleCircle /\ circle_circle_raises(p, a, b)

\* ---------------------------------------------------------------- snapper
\* AbstractSprite._handle_circle_circle
handle_circle_circle(p, a, b, d) ==
  LET p1 == contour_hit(p, a, b, a)
      p2 == contour_hit(p, a, b, b)
  IN  IF d = "down" THEN Shift(p, a, <<0, -(p1[2] - p2[2])>>)
      ELSE IF d = "up" THEN Shift(p, a, <<0, p2[2] - p1[2]>>)
      ELSE IF d = "right" THEN Shift(p, a, <<p2[1] - p1[1], 0>>)
      ELSE Shift(p, a, <<-(p1[1] - p2[1]), 0>>)

\* A faulty _handle_square_square: a is snapped along both axes, whatever the
\* direction
handle_square_square_both(p, a, b, d) ==
  Shift(p, a, <<bounds(p, b)[1] - bounds(p, a)[3], bounds(p, b)[2] - bounds(p, a)[4]>>)

\* AbstractSprite._handle_square_square: snap a to contact with b
handle_square_square(p, a, b, d) ==
  IF d = "down" THEN Shift(p, a, <<0, -(bounds(p, a)[2] - bounds(p, b)[4])>>)
  ELSE IF d = "up" THEN Shift(p, a, <<0, bounds(p, b)[2] - bounds(p, a)[4]>>)
  ELSE IF d = "right" THEN Shift(p, a, <<bounds(p, b)[1] - bounds(p, a)[3], 0>>)
  ELSE Shift(p, a, <<-(bounds(p, a)[1] - bounds(p, b)[3]), 0>>)

\* AbstractSprite._handle_triangle_triangle, the branches decided by the
\* bounds: lines 841, 856, 871, 886
handle_triangle_triangle(p, a, b, d) ==
  IF d = "down" THEN Shift(p, a, <<0, -(bounds(p, a)[2] - bounds(p, b)[4])>>)
  ELSE IF d = "up" THEN Shift(p, a, <<0, bounds(p, b)[2] - bounds(p, a)[4]>>)
  ELSE IF d = "right" THEN Shift(p, a, <<bounds(p, b)[1] - bounds(p, a)[3], 0>>)
  ELSE Shift(p, a, <<-(bounds(p, b)[3] - bounds(p, a)[1]), 0>>)

\* AbstractSprite._handle_circle_triangle, the branches decided by the
\* bounds: lines 709 and 728
handle_circle_triangle(p, a, b, d) ==
  IF d = "down" THEN Shift(p, a, <<0, -(p[a][2] - prop(a) - bounds(p, b)[4])>>)
  ELSE Shift(p, a, <<0, bounds(p, b)[2] - prop(a) - p[a][2]>>)

\* Sprite.handle_collision
handle_collision(p, a, b, d) ==
  CASE Pair(a, b) = CircleCircle -> handle_circle_circle(p, a, b, d)
    [] Pair(a, b) = SquareSquare -> handle_square_square(p, a, b, d)
    [] Pair(a, b) = TriangleTriangle -> handle_triangle_triangle(p, a, b, d)
    [] Pair(a, b) = CircleTriangle -> handle_circle_triangle(p, a, b, d)

\* Sprite.handle_collision raises (an empty intersection in _handle_circle_circle)
handle_collision_raises(p, a, b, d) ==
  Pair(a, b) = CircleCircle /\ circle_circle_raises(p, a, b)

\* ---------------------------------------------------------------- resolver
\* AbstractSprite._circle_circle_overlap, for centres on one horizontal line
\* and a horizontal direction.  p1: the end of the part of the centre segment
\* inside self's polygon.  lo..hi: the part of line2 inside other's polygon.
circle_circle_overlap(p, a, b, d) ==
  LET p1x == IF centre_distance(p, a, b) >= half_extent(a)
             THEN contour_hit(p, a, b, a)[1] ELSE p[b][1]
      lo  == IF d = "right" THEN Max(0, bounds(p, b)[1]) ELSE Max(p1x, bounds(p, b)[1])
      hi  == IF d = "right" THEN Min(p1x, bounds(p, b)[3]) ELSE Min(FrameMax, bounds(p, b)[3])
      p2x == IF lo # p1x THEN lo ELSE hi
  IN  CASE p[a][2] = p[b][2] /\ d = "right" ->
             IF lo < hi THEN Shift(p, a, <<-(p1x - p2x), 0>>) ELSE p
        [] p[a][2] = p[b][2] /\ d = "left" ->
             IF lo < hi THEN Shift(p, a, <<p2x - p1x, 0>>) ELSE p

\* _circle_circle_overlap raises: no point of the segment differs from
\* self.position (coincident centres)
circle_circle_overlap_raises(p, a, b) == p[a] = p[b]

\* A faulty _square_square_overlap: it measures from the centre of a and not
\* from the side of a that faces b
square_square_overlap_centre(p, a, b, d) ==
  IF d = "down" THEN
    IF bounds(p, b)[4] >= bounds(p, a)[2]
    THEN Shift(p, a, <<0, bounds(p, b)[4] - p[a][2] + Eps>>) ELSE p
  ELSE IF d = "up" THEN
    IF bounds(p, a)[4] >= bounds(p, b)[2]
    THEN Shift(p, a, <<0, -(p[a][2] - bounds(p, b)[2] + Eps)>>) ELSE p
  ELSE IF d = "right" THEN
    IF bounds(p, a)[3] >= bounds(p, b)[1]
    THEN Shift(p, a, <<-(p[a][1] - bounds(p, b)[1] + Eps), 0>>) ELSE p
  ELSE
    IF bounds(p, b)[3] >= bounds(p, a)[1]
    THEN Shift(p, a, <<bounds(p, b)[3] - p[a][1] + Eps, 0>>) ELSE p

\* A faulty _square_square_overlap: the 1e-5 is left out, a ends in contact with b
square_square_overlap_exact(p, a, b, d) ==
  IF d = "down" THEN
    IF bounds(p, b)[4] >= bounds(p, a)[2]
    THEN Shift(p, a, <<0, bounds(p, b)[4] - bounds(p, a)[2]>>) ELSE p
  ELSE IF d = "up" THEN
    IF bounds(p, a)[4] >= bounds(p, b)[2]
    THEN Shift(p, a, <<0, -(bounds(p, a)[4] - bounds(p, b)[2])>>) ELSE p
  ELSE IF d = "right" THEN
    IF bounds(p, a)[3] >= bounds(p, b)[1]
    THEN Shift(p, a, <<-(bounds(p, a)[3] - bounds(p, b)[1]), 0>>) ELSE p
  ELSE
    IF bounds(p, b)[3] >= bounds(p, a)[1]
    THEN Shift(p, a, <<bounds(p, b)[3] - bounds(p, a)[1], 0>>) ELSE p

\* AbstractSprite._square_square_overlap: move a out of b, leaving a gap of Eps
square_square_overlap(p, a, b, d) ==
  IF d = "down" THEN
    IF bounds(p, b)[4] >= bounds(p, a)[2]
    THEN Shift(p, a, <<0, bounds(p, b)[4] - bounds(p, a)[2] + Eps>>) ELSE p
  ELSE IF d = "up" THEN
    IF bounds(p, a)[4] >= bounds(p, b)[2]
    THEN Shift(p, a, <<0, -(bounds(p, a)[4] - bounds(p, b)[2] + Eps)>>) ELSE p
  ELSE IF d = "right" THEN
    IF bounds(p, a)[3] >= bounds(p, b)[1]
    THEN Shift(p, a, <<-(bounds(p, a)[3] - bounds(p, b)[1] + Eps), 0>>) ELSE p
  ELSE
    IF bounds(p, b)[3] >= bounds(p, a)[1]
    THEN Shift(p, a, <<bounds(p, b)[3] - bounds(p, a)[1] + Eps, 0>>) ELSE p

\* The square q reaches over the apex of the triangle t: neither of the first
\* two tests of a vertical direction holds
astride_apex(p, q, t) ==
  bounds(p, q)[1] <= p[t][1] /\ p[t][1] <= bounds(p, q)[3]

\* The lower side of the square q is below the base of the triangle t: the
\* test of a horizontal direction fails in _square_triangle_overlap and holds
\* in _triangle_square_overlap
below_base(p, q, t) == bounds(p, q)[2] < bounds(p, t)[2]

\* AbstractSprite._square_triangle_overlap: the branches that read the bounds
\* only (down: astride_apex; right, left: below_base)
square_triangle_overlap(p, a, b, d) ==
  IF d = "down" THEN Shift(p, a, <<0, bounds(p, b)[4] - bounds(p, a)[2]>>)
  ELSE IF d = "up" THEN Shift(p, a, <<0, -(bounds(p, a)[4] - bounds(p, b)[2] + Eps)>>)
  ELSE IF d = "right" THEN Shift(p, a, <<-(bounds(p, a)[3] - bounds(p, b)[1]), 0>>)
  ELSE Shift(p, a, <<bounds(p, b)[3] - bounds(p, a)[1], 0>>)

\* AbstractSprite._triangle_square_overlap: the branches that read the bounds
\* only (up: astride_apex; right, left: below_base)
triangle_square_overlap(p, a, b, d) ==
  IF d = "down" THEN Shift(p, a, <<0, bounds(p, b)[4] - bounds(p, a)[2] + Eps>>)
  ELSE IF d = "up" THEN Shift(p, a, <<0, -(bounds(p, a)[4] - bounds(p, b)[2] + Eps)>>)
  ELSE IF d = "right" THEN Shift(p, a, <<-(bounds(p, a)[3] - bounds(p, b)[1] + Eps), 0>>)
  ELSE Shift(p, a, <<bounds(p, b)[3] - bounds(p, a)[1] + Eps, 0>>)

\* Sprite.resolve_overlapping
resolve_overlapping(p, a, b, d) ==
  CASE Pair(a, b) = CircleCircle -> circle_circle_overlap(p, a, b, d)
    [] Pair(a, b) = SquareSquare -> square_square_overlap(p, a, b, d)
    [] Pair(a, b) = SquareTriangle -> square_triangle_overlap(p, a, b, d)
    [] Pair(a, b) = TriangleSquare -> triangle_square_overlap(p, a, b, d)

\* A faulty predicate-only query: it answers None (false) whatever the positions
overlapping_never(p, a, b) == FALSE

\* Sprite.avoid_overlapping(other, direction, resolve=False): the predicate only
overlapping(p, a, b) ==
  CASE Pair(a, b) = CircleCircle -> circle_circle(p[a], p[b], prop(a), prop(b))
    [] Pair(a, b) = SquareSquare -> check_collision(p, a, b)
    [] Pair(a, b) = CircleTriangle -> triangle_circle(vertices(p, b), p[a], prop(a))
    [] Pair(a, b) = TriangleCircle -> triangle_circle(vertices(p, a), p[b], prop(b))

\* Sprite.avoid_overlapping(other, direction): resolve when the predicate holds
avoid_overlapping(p, a, b, d) ==
  IF overlapping(p, a, b) THEN resolve_overlapping(p, a, b, d) ELSE p

\* Sprite.avoid_overlapping raises
avoid_overlapping_raises(p, a, b, d) ==
  /\ Pair(a, b) = CircleCircle
  /\ overlapping(p, a, b)
  /\ circle_circle_overlap_raises(p, a, b)

\* ---------------------------------------------------------------- detection
\* A faulty revert: the statement is missing
Revert_missing(p, a, m) == p

\* sprite.py lines 174, 178, 205: self._position -= motion
Revert(p, a, m) == Shift(p, a, <<-m[1], -m[2]>>)

\* A faulty detect_collision: the square entry returns before line 174
detect_collision_unreverted(p, a, b, m) ==
  CASE Pair(a, b) = CircleCircle ->
         [collision |-> circle_circle(<<p[a][1] + m[1], p[a][2] + m[2]>>, p[b],
                                      prop(a), prop(b)),
          pos |-> p]
    [] Pair(a, b) = SquareSquare ->
         [collision |-> check_collision(Shift(p, a, m), a, b),
          pos |-> Shift(p, a, m)]

\* Sprite.detect_collision.  Returns the verdict and the positions it leaves
\* behind: the circle entry tests position + motion without storing it, the
\* square entry displaces self, tests and reverts.
detect_collision(p, a, b, m) ==
  CASE Pair(a, b) = CircleCircle ->
         [collision |-> circle_circle(<<p[a][1] + m[1], p[a][2] + m[2]>>, p[b],
                                      prop(a), prop(b)),
          pos |-> p]
    [] Pair(a, b) = SquareSquare ->
         [collision |-> check_collision(Shift(p, a, m), a, b),
          pos |-> Revert(Shift(p, a, m), a, m)]

\* The positions left behind when the predicate raises inside detect_collision:
\* in the square entry line 172 has run and line 174 has not.
detect_collision_raises(p, a, b, m) ==
  CASE Pair(a, b) = CircleCircle -> p
    [] Pair(a, b) = SquareSquare -> Shift(p, a, m)

\* Sprite.get_carried_sprite: the sprites for which detect_collision is true,
\* in the order of the list
RECURSIVE get_carried_sprite(_, _, _, _)
get_carried_sprite(p, a, sprites, m) ==
  IF sprites = <<>> THEN [carried |-> <<>>, pos |-> p]
  ELSE LET r    == detect_collision(p, a, Head(sprites), m)
           rest == get_carried_sprite(r.pos, a, Tail(sprites), m)
       IN  [carried |-> IF r.collision THEN <<Head(sprites)>> \o rest.carried
                        ELSE rest.carried,
            pos |-> rest.pos]

\* A faulty ranking: the first candidate is taken whatever the distances
argmin_first(ds) == 1

\* numpy.argmin: the first index of a minimal element
argmin(ds) ==
  CHOOSE i \in 1..Len(ds) :
    /\ \A j \in 1..Len(ds) : ds[i] <= ds[j]
    /\ \A j \in 1..(i - 1) : ds[j] > ds[i]

\* list.pop(i)
pop(seq, i) == SubSeq(seq, 1, i - 1) \o SubSeq(seq, i + 1, Len(seq))

\* utils.get_closest
get_closest(p, s, carried, d) ==
  LET i == argmin([k \in 1..Len(carried) |-> get_distance(p, s, carried[k], d)])
  IN  [closest |-> carried[i], carried |-> pop(carried, i)]

\* utils.get_closest raises: one of the distances does
get_closest_raises(p, s, carried, d) ==
  \E k \in 1..Len(carried) : get_distance_raises(p, s, carried[k], d)

\* A faulty filter: the callee is not removed from the list handed to it
others_without_nothing(others, x) == others

\* A faulty filter: the first of the list is dropped, whoever the callee is
others_without_head(others, x) == Tail(others)

\* sprite.py lines 227, 234: [sprite for sprite in others if sprite != x]
others_without(others, x) == SelectSeq(others, LAMBDA s : s # x)

\* A faulty branch test: the direction is compared with the relative positions
\* themselves instead of their opposites
is_push_same_side(p, a, cs, d) ==
  d \in get_relative_positions(p, a, cs)

\* sprite.py line 225: direction in [opposite[p] for p in positions]
is_push(p, a, cs, d) ==
  d \in {opposite(r) : r \in get_relative_positions(p, a, cs)}

\* A faulty clamp: the centre is kept in the frame, the offsets are forgotten
keep_in_frame_centre(p, b) ==
  [p EXCEPT ![b] = <<Clip(p[b][1], 0, FrameMax), Clip(p[b][2], 0, FrameMax)>>]

\* sprite.py lines 241-243: clamp the position so that the bounds stay in frame
keep_in_frame(p, b) ==
  [p EXCEPT ![b] =
     <<Clip(p[b][1], 0 + offsets(p, b).bottom_left[1], FrameMax - offsets(p, b).top_right[1]),
       Clip(p[b][2], 0 + offsets(p, b).bottom_left[2], FrameMax - offsets(p, b).top_right[2])>>]

\* ---------------------------------------------------------------- invocations
\* One invocation of Sprite.move.  log is the history of what the invocation
\* has done so far: <<operation, other body>> in program order.  moved is the
\* set of bodies whose move has been invoked and has returned within this
\* invocation, its nested invocations included.
NewFrame(s, none, oth) ==
  [self |-> s, none |-> none, others |-> oth, pc |-> "enter",
   dir |-> "none", cs |-> 0, carried |-> <<>>, log |-> <<>>, moved |-> {}]

Depth == Len(stack)
Top == stack[Depth]
SetTop(f) == [stack EXCEPT ![Depth] = f]
Running == status = "running" /\ Depth > 0
Logged(f, op, whom) == [f EXCEPT !.log = Append(@, <<op, whom>>)]

Init ==
  /\ \/ shape = [b \in Bodies |-> "square"] /\ pos \in [Bodies -> Positions]
     \/ shape = [b \in Bodies |-> "circle"] /\ pos \in [Bodies -> RowPositions]
  /\ body = [b \in Bodies |-> NewSprite(shape[b], Scale, 0)]
  /\ pos0 = pos
  /\ motion = <<0, 0>>
  /\ keep = FALSE
  /\ args = [none |-> TRUE, others |-> <<>>]
  /\ stack = <<>>
  /\ status = "idle"

\* A collaborator calls move(motion, keep_in_frame, others) on body 1
\* (update_position passes the velocity as motion).
MoveCall ==
  /\ status = "idle"
  /\ \E m \in Motions, k \in BOOLEAN, none \in BOOLEAN, oth \in OthersArgs :
       /\ none => oth = <<>>
       /\ shape[1] = "circle" => Len(oth) <= 1
       /\ motion' = m
       /\ keep' = k
       /\ args' = [none |-> none, others |-> oth]
       /\ stack' = <<NewFrame(1, none, oth)>>
  /\ status' = "running"
  /\ UNCHANGED <<body, shape, pos, pos0>>

\* line 239: others is None
MoveNoOthers ==
  /\ Running /\ Top.pc = "enter" /\ Top.none
  /\ pos' = Shift(pos, Top.self, motion)
  /\ stack' = SetTop(Logged([Top EXCEPT !.pc = "clamp"], "commit", 0))
  /\ UNCHANGED <<body, shape, pos0, motion, keep, args, status>>

\* line 218: get_motion_direction exits
MoveFatal ==
  /\ Running /\ Top.pc = "enter" /\ ~Top.none
  /\ get_motion_direction(motion) = "exit"
  /\ status' = "fatal"
  /\ stack' = <<>>
  /\ UNCHANGED <<body, shape, pos, pos0, motion, keep, args>>

\* line 219: the overlap predicate raises while the k-th of others is tested;
\* the exception leaves move and every caller
MoveRaise ==
  /\ Running /\ Top.pc = "enter" /\ ~Top.none
  /\ get_motion_direction(motion) # "exit"
  /\ \E k \in 1..Len(Top.others) :
       pos' = detect_collision_raises(
                get_carried_sprite(pos, Top.self, SubSeq(Top.others, 1, k - 1), motion).pos,
                Top.self, Top.others[k], motion)
  /\ status' = "raised"
  /\ stack' = <<>>
  /\ UNCHANGED <<body, shape, pos0, motion, keep, args>>

\* lines 219-220, 237-238: no carried candidate
MoveNoCarried ==
  /\ Running /\ Top.pc = "enter" /\ ~Top.none
  /\ get_motion_direction(motion) # "exit"
  /\ LET det == get_carried_sprite(pos, Top.self, Top.others, motion)
     IN  /\ det.carried = <<>>
         /\ pos' = Shift(det.pos, Top.self, motion)
         /\ stack' = SetTop(Logged([Top EXCEPT !.pc = "clamp",
                                               !.dir = get_motion_direction(motion)],
                                   "commit", 0))
  /\ UNCHANGED <<body, shape, pos0, motion, keep, args, status>>

\* lines 219-221: candidates found and ranked
MoveRank ==
  /\ Running /\ Top.pc = "enter" /\ ~Top.none
  /\ get_motion_direction(motion) # "exit"
  /\ LET d   == get_motion_direction(motion)
         det == get_carried_sprite(pos, Top.self, Top.others, motion)
         sel == get_closest(det.pos, Top.self, det.carried, d)
     IN  /\ det.carried # <<>>
         /\ ~get_closest_raises(det.pos, Top.self, det.carried, d)
         /\ pos' = det.pos
         /\ stack' = SetTop(Logged([Top EXCEPT !.pc = "snap", !.dir = d,
                                               !.cs = sel.closest,
                                               !.carried = sel.carried],
                                   "rank", sel.closest))
  /\ UNCHANGED <<body, shape, pos0, motion, keep, args, status>>

\* line 221: a distance query raises (empty intersection); the exception leaves
\* move and every caller
MoveRankRaises ==
  /\ Running /\ Top.pc = "enter" /\ ~Top.none
  /\ get_motion_direction(motion) # "exit"
  /\ LET d   == get_motion_direction(motion)
         det == get_carried_sprite(pos, Top.self, Top.others, motion)
     IN  /\ det.carried # <<>>
         /\ get_closest_raises(det.pos, Top.self, det.carried, d)
         /\ pos' = det.pos
  /\ status' = "raised"
  /\ stack' = <<>>
  /\ UNCHANGED <<body, shape, pos0, motion, keep, args>>

\* line 222: handle_collision(cs, direction)
MoveSnap ==
  /\ Running /\ Top.pc = "snap"
  /\ ~handle_collision_raises(pos, Top.self, Top.cs, Top.dir)
  /\ pos' = handle_collision(pos, Top.self, Top.cs, Top.dir)
  /\ stack' = SetTop(Logged([Top EXCEPT !.pc = "branch"], "snap", Top.cs))
  /\ UNCHANGED <<body, shape, pos0, motion, keep, args, status>>

\* lines 223-228: push branch, up to the call of cs.move
MoveBranchPush ==
  /\ Running /\ Top.pc = "branch"
  /\ is_push(pos, Top.self, Top.cs, Top.dir)
  /\ pos' = Shift(pos, Top.self, motion)
  /\ stack' = Append(SetTop(Logged(Logged([Top EXCEPT !.pc = "resolve_cs"],
                                          "commit", 0), "call", Top.cs)),
                     NewFrame(Top.cs, FALSE, others_without(Top.others, Top.cs)))
  /\ UNCHANGED <<body, shape, pos0, motion, keep, args, status>>

\* lines 230-231: the other branch
MoveBranchStay ==
  /\ Running /\ Top.pc = "branch"
  /\ ~is_push(pos, Top.self, Top.cs, Top.dir)
  /\ pos' = Shift(pos, Top.self, motion)
  /\ stack' = SetTop(Logged([Top EXCEPT !.pc = "secondary"], "commit", 0))
  /\ UNCHANGED <<body, shape, pos0, motion, keep, args, status>>

\* line 229: avoid_overlapping(cs, direction), after cs.move has returned
MoveResolveCs ==
  /\ Running /\ Top.pc = "resolve_cs"
  /\ ~avoid_overlapping_raises(pos, Top.self, Top.cs, Top.dir)
  /\ pos' = avoid_overlapping(pos, Top.self, Top.cs, Top.dir)
  /\ stack' = SetTop(Logged([Top EXCEPT !.pc = "secondary"], "avoid", Top.cs))
  /\ UNCHANGED <<body, shape, pos0, motion, keep, args, status>>

\* lines 232-235: the next carried sprite still overlaps: call its move
MoveSecondaryCall ==
  /\ Running /\ Top.pc = "secondary" /\ Top.carried # <<>>
  /\ overlapping(pos, Top.self, Head(Top.carried))
  /\ stack' = Append(SetTop(Logged([Top EXCEPT !.pc = "resolve_sec"],
                                   "call", Head(Top.carried))),
                     NewFrame(Head(Top.carried), FALSE,
                              others_without(Top.others, Head(Top.carried))))
  /\ UNCHANGED <<body, shape, pos, pos0, motion, keep, args, status>>

\* lines 232-233: the next carried sprite does not overlap: nothing is done
MoveSecondarySkip ==
  /\ Running /\ Top.pc = "secondary" /\ Top.carried # <<>>
  /\ ~overlapping(pos, Top.self, Head(Top.carried))
  /\ stack' = SetTop(Logged([Top EXCEPT !.carried = Tail(Top.carried)],
                            "skip", Head(Top.carried)))
  /\ UNCHANGED <<body, shape, pos, pos0, motion, keep, args, status>>

\* line 236: avoid_overlapping(carried_sprite, direction), after its move returned
MoveResolveSec ==
  /\ Running /\ Top.pc = "resolve_sec"
  /\ ~avoid_overlapping_raises(pos, Top.self, Head(Top.carried), Top.dir)
  /\ pos' = avoid_overlapping(pos, Top.self, Head(Top.carried), Top.dir)
  /\ stack' = SetTop(Logged([Top EXCEPT !.pc = "secondary",
                                        !.carried = Tail(Top.carried)],
                            "avoid", Head(Top.carried)))
  /\ UNCHANGED <<body, shape, pos0, motion, keep, args, status>>

\* The stack after the innermost invocation has returned to its caller
Returned ==
  IF Depth = 1 THEN <<>>
  ELSE [SubSeq(stack, 1, Depth - 1) EXCEPT
          ![Depth - 1] = [Logged(stack[Depth - 1], "return", Top.self) EXCEPT
                            !.moved = @ \cup {Top.self} \cup Top.moved]]

\* lines 241-243 and the return of move
MoveClamp ==
  /\ Running
  /\ \/ Top.pc = "clamp"
     \/ Top.pc = "secondary" /\ Top.carried = <<>>
  /\ pos' = IF keep THEN keep_in_frame(pos, Top.self) ELSE pos
  /\ stack' = Returned
  /\ status' = IF Depth = 1 THEN "done" ELSE status
  /\ UNCHANGED <<body, shape, pos0, motion, keep, args>>

Next ==
  \/ MoveCall
  \/ MoveNoOthers
  \/ MoveFatal
  \/ MoveRaise
  \/ MoveNoCarried
  \/ MoveRank
  \/ MoveRankRaises
  \/ MoveSnap
  \/ MoveBranchPush
  \/ MoveBranchStay
  \/ MoveResolveCs
  \/ MoveSecondaryCall
  \/ MoveSecondarySkip
  \/ MoveResolveSec
  \/ MoveClamp

Spec == Init /\ [][Next]_vars

\* The scheduling of a synchronous call: a started move keeps running.
FairSpec == Spec /\ WF_vars(Next)

\* ================================================== scenes of either size
\* The scenes of Init with bodies of scale 0.1 as well as 0.2: three squares
\* of scale 0.1 can stand apart from each other on the grid.
SizedInit ==
  /\ \/ shape = [b \in Bodies |-> "square"] /\ pos \in [Bodies -> Positions]
     \/ shape = [b \in Bodies |-> "circle"] /\ pos \in [Bodies -> RowPositions]
  /\ \E sc \in {Step, Scale} : body = [b \in Bodies |-> NewSprite(shape[b], sc, 0)]
  /\ pos0 = pos
  /\ motion = <<0, 0>>
  /\ keep = FALSE
  /\ args = [none |-> TRUE, others |-> <<>>]
  /\ stack = <<>>
  /\ status = "idle"

\* Motions longer than the bodies are wide: 0.3 along each axis
FarMotions == {<<3 * Step, 0>>, <<-3 * Step, 0>>, <<0, 3 * Step>>, <<0, -3 * Step>>}

\* A collaborator calls move(motion, keep_in_frame, others) on body 1 with a
\* long motion
MoveFar ==
  /\ status = "idle"
  /\ \E m \in FarMotions, k \in BOOLEAN, oth \in OthersArgs :
       /\ shape[1] = "circle" => Len(oth) <= 1
       /\ motion' = m
       /\ keep' = k
       /\ args' = [none |-> FALSE, others |-> oth]
       /\ stack' = <<NewFrame(1, FALSE, oth)>>
  /\ status' = "running"
  /\ UNCHANGED <<body, shape, pos, pos0>>

SizedNext ==
  \/ Next
  \/ MoveFar

SizedSpec == SizedInit /\ [][SizedNext]_vars

\* ================================================= the pair operations alone
\* resolve_overlapping and handle_collision applied to bodies 1 and 2 of a
\* scene in which their polygons share a point.
PairKinds == {SquareSquare, CircleCircle, SquareTriangle, TriangleSquare}

\* The shape kinds that the dispatch chains name
Kinds == {"circle", "square", "triangle"}

\* Pairs with a body of another kind: no entry of a dispatch chain matches
UnmatchedKinds ==
  {<<"square", "pentagon">>, <<"pentagon", "circle">>, <<"triangle", "pentagon">>}

\* The dispatching operations
Dispatches == {"handle_collision", "resolve_overlapping", "_get_distance",
               "avoid_overlapping", "detect_collision"}

\* How a dispatch ends when no entry matches: the chains of handle_collision,
\* resolve_overlapping and _get_distance end in else: exit(...); those of
\* avoid_overlapping and detect_collision have no else and go on to read a
\* local variable that was never bound
dispatch_unmatched(op) ==
  IF op \in {"handle_collision", "resolve_overlapping", "_get_distance"}
  THEN "fatal" ELSE "raised"

\* The positions when a dispatch of a on b finds no entry: detect_collision
\* with a triangle as self adds the motion before the inner chain and
\* subtracts it after; no other dispatch writes a position
unmatched_positions(p, a, op, m) ==
  IF op = "detect_collision" /\ shape[a] = "triangle"
  THEN Shift(Shift(p, a, m), a, <<-m[1], -m[2]>>)
  ELSE p

\* The scale at which the radius of a circle is 0.05
SmallCircleScale ==
  CHOOSE sc \in (Step \div 2)..Step : Times(sc, InvSqrtPi) = Step \div 2

PairScales == {Step, Scale, SmallCircleScale}
PairXS == {3 * Step, 5 * Step, 5 * Step + Step \div 2, 6 * Step, 7 * Step}
PairYS == {3 * Step, 5 * Step, 6 * Step}
PairPositions == {<<x, y>> : x \in PairXS, y \in PairYS}

\* The branch of the resolver that (a, b, d) selects is one of those modelled
resolve_defined(p, a, b, d) ==
  /\ Pair(a, b) \in PairKinds
  /\ CASE Pair(a, b) = SquareSquare -> TRUE
       [] Pair(a, b) = CircleCircle -> p[a][2] = p[b][2] /\ d \in {"left", "right"}
       [] Pair(a, b) = SquareTriangle ->
            IF d = "up" THEN TRUE
            ELSE IF d = "down" THEN astride_apex(p, a, b)
            ELSE below_base(p, a, b)
       [] Pair(a, b) = TriangleSquare ->
            IF d = "down" THEN TRUE
            ELSE IF d = "up" THEN astride_apex(p, b, a)
            ELSE below_base(p, b, a)

\* Sprite.resolve_overlapping raises
resolve_overlapping_raises(p, a, b) ==
  Pair(a, b) = CircleCircle /\ circle_circle_overlap_raises(p, a, b)

\* The base of triangle s spans the apex of triangle t: neither
\* self_vert[2][0] < other_vert[0][0] nor self_vert[1][0] > other_vert[0][0]
spans_apex(p, s, t) ==
  /\ ~(vertices(p, s)[3][1] < vertices(p, t)[1][1])
  /\ ~(vertices(p, s)[2][1] > vertices(p, t)[1][1])

\* The circle c reaches over the apex of triangle t:
\* not (c.x - r >= apex x or c.x + r <= apex x)
over_apex(p, c, t) ==
  ~(p[c][1] - prop(c) >= vertices(p, t)[1][1] \/ p[c][1] + prop(c) <= vertices(p, t)[1][1])

\* The branch of the snapper that (a, b, d) selects is one of those modelled
handle_defined(p, a, b, d) ==
  \/ Pair(a, b) = SquareSquare
  \/ Pair(a, b) = CircleCircle /\ (p[a][1] = p[b][1] \/ p[a][2] = p[b][2])
  \/ /\ Pair(a, b) = TriangleTriangle
     /\ IF d = "down" THEN spans_apex(p, a, b)
        ELSE IF d = "up" THEN spans_apex(p, b, a)
        ELSE bounds(p, a)[2] = bounds(p, b)[2]
  \/ /\ Pair(a, b) = CircleTriangle
     /\ IF d = "down"
        THEN /\ p[a][2] - prop(a) >= vertices(p, b)[1][2]
             /\ p[a][1] - vertices(p, b)[1][1] <= Step \div 5
        ELSE d = "up"

\* The branch of the distance query that (a, b, d) selects is one of those
\* modelled
distance_defined(p, a, b, d) ==
  \/ Pair(a, b) = SquareSquare
  \/ Pair(a, b) = CircleCircle /\ (p[a][1] = p[b][1] \/ p[a][2] = p[b][2])
  \/ /\ Pair(a, b) = TriangleTriangle
     /\ IF d = "down" THEN spans_apex(p, a, b)
        ELSE IF d = "up" THEN spans_apex(p, b, a)
        ELSE bounds(p, a)[2] = bounds(p, b)[2]
  \/ /\ Pair(a, b) = CircleTriangle
     /\ IF d = "down" THEN over_apex(p, a, b) ELSE d = "up"
  \/ /\ Pair(a, b) = TriangleCircle
     /\ IF d = "up" THEN over_apex(p, b, a) ELSE d = "down"

\* The record of an operation of a on b in direction d that has been applied
Applied(a, b, d, what) ==
  [NewFrame(a, FALSE, <<b>>) EXCEPT !.pc = what, !.dir = d, !.cs = b]

PairInit ==
  /\ \E kinds \in PairKinds \cup UnmatchedKinds, sc \in PairScales :
       /\ shape = [b \in Bodies |-> IF b = 3 THEN "square" ELSE kinds[b]]
       /\ body = [b \in Bodies |-> NewSprite(shape[b], sc, 0)]
  /\ \E p1 \in PairPositions, p2 \in PairPositions :
       pos = [b \in Bodies |-> IF b = 1 THEN p1 ELSE IF b = 2 THEN p2
                                ELSE <<BaseX, BaseY>>]
  /\ Pair(1, 2) = CircleCircle => pos[1][2] = pos[2][2]
  /\ Pair(1, 2) \in PairKinds => check_collision(pos, 1, 2)
  /\ pos0 = pos
  /\ motion = <<0, 0>>
  /\ keep = FALSE
  /\ args = [none |-> TRUE, others |-> <<>>]
  /\ stack = <<>>
  /\ status = "idle"

\* a.resolve_overlapping(b, d)
ResolveCall ==
  /\ status = "idle"
  /\ \E a \in {1, 2}, d \in Directions :
       /\ resolve_defined(pos, a, 3 - a, d)
       /\ ~resolve_overlapping_raises(pos, a, 3 - a)
       /\ pos' = resolve_overlapping(pos, a, 3 - a, d)
       /\ stack' = <<Applied(a, 3 - a, d, "resolved")>>
  /\ status' = "applied"
  /\ UNCHANGED <<body, shape, pos0, motion, keep, args>>

\* a.resolve_overlapping(b, d) raises
ResolveRaises ==
  /\ status = "idle"
  /\ \E a \in {1, 2}, d \in Directions :
       /\ resolve_defined(pos, a, 3 - a, d)
       /\ resolve_overlapping_raises(pos, a, 3 - a)
       /\ stack' = <<Applied(a, 3 - a, d, "resolve")>>
  /\ status' = "raised"
  /\ UNCHANGED <<body, shape, pos, pos0, motion, keep, args>>

\* The same call once more; pos0 keeps the positions it started from
ResolveAgain ==
  /\ status = "applied" /\ Top.pc = "resolved"
  /\ resolve_defined(pos, Top.self, Top.cs, Top.dir)
  /\ ~resolve_overlapping_raises(pos, Top.self, Top.cs)
  /\ pos' = resolve_overlapping(pos, Top.self, Top.cs, Top.dir)
  /\ pos0' = pos
  /\ stack' = SetTop([Top EXCEPT !.pc = "resolved_twice"])
  /\ UNCHANGED <<body, shape, motion, keep, args, status>>

\* The same call once more raises
ResolveAgainRaises ==
  /\ status = "applied" /\ Top.pc = "resolved"
  /\ resolve_defined(pos, Top.self, Top.cs, Top.dir)
  /\ resolve_overlapping_raises(pos, Top.self, Top.cs)
  /\ pos0' = pos
  /\ status' = "raised"
  /\ UNCHANGED <<body, shape, pos, motion, keep, args, stack>>

\* a.handle_collision(b, d)
HandleCall ==
  /\ status = "idle"
  /\ \E a \in {1, 2}, d \in Directions :
       /\ handle_defined(pos, a, 3 - a, d)
       /\ ~handle_collision_raises(pos, a, 3 - a, d)
       /\ pos' = handle_collision(pos, a, 3 - a, d)
       /\ stack' = <<Applied(a, 3 - a, d, "snapped")>>
  /\ status' = "applied"
  /\ UNCHANGED <<body, shape, pos0, motion, keep, args>>

\* a.handle_collision(b, d) raises
HandleRaises ==
  /\ status = "idle"
  /\ \E a \in {1, 2}, d \in Directions :
       /\ handle_defined(pos, a, 3 - a, d)
       /\ handle_collision_raises(pos, a, 3 - a, d)
       /\ stack' = <<Applied(a, 3 - a, d, "snap")>>
  /\ status' = "raised"
  /\ UNCHANGED <<body, shape, pos, pos0, motion, keep, args>>

\* A dispatch of a on b finds no entry for the pair of kinds
Unmatched ==
  /\ status = "idle"
  /\ \E a \in {1, 2}, d \in Directions, op \in Dispatches :
       /\ Pair(a, 3 - a) \notin Kinds \X Kinds
       /\ pos' = unmatched_positions(pos, a, op, <<Step, 0>>)
       /\ stack' = <<Applied(a, 3 - a, d, op)>>
       /\ status' = dispatch_unmatched(op)
  /\ UNCHANGED <<body, shape, pos0, motion, keep, args>>

PairNext ==
  \/ Unmatched
  \/ ResolveCall
  \/ ResolveRaises
  \/ ResolveAgain
  \/ ResolveAgainRaises
  \/ HandleCall
  \/ HandleRaises

PairSpec == PairInit /\ [][PairNext]_vars

\* ============================================== queries on bodies kept apart
\* handle_collision, _get_distance and the predicate-only avoid_overlapping
\* applied to bodies 1 and 2 wherever they are: apart, in contact or
\* overlapping.
AheadKinds ==
  {SquareSquare, CircleCircle, TriangleTriangle, CircleTriangle, TriangleCircle}

AheadInit ==
  /\ \E kinds \in AheadKinds, s1 \in {Step, Scale}, s2 \in {Step, Scale} :
       /\ shape = [b \in Bodies |-> IF b = 3 THEN "square" ELSE kinds[b]]
       /\ body = [b \in Bodies |->
                    NewSprite(shape[b], IF b = 1 THEN s1 ELSE IF b = 2 THEN s2 ELSE Step, 0)]
  /\ \E p1 \in PairPositions, p2 \in PairPositions :
       pos = [b \in Bodies |-> IF b = 1 THEN p1 ELSE IF b = 2 THEN p2
                                ELSE <<BaseX, BaseY>>]
  /\ pos0 = pos
  /\ motion = <<0, 0>>
  /\ keep = FALSE
  /\ args = [none |-> TRUE, others |-> <<>>]
  /\ stack = <<>>
  /\ status = "idle"

\* utils._get_distance(a, b, d) returns; the value is logged
DistanceCall ==
  /\ status = "idle"
  /\ \E a \in {1, 2}, d \in Directions :
       /\ distance_defined(pos, a, 3 - a, d)
       /\ ~get_distance_raises(pos, a, 3 - a, d)
       /\ stack' = <<Logged(Applied(a, 3 - a, d, "distance"), "return",
                            get_distance(pos, a, 3 - a, d))>>
  /\ status' = "applied"
  /\ UNCHANGED <<body, shape, pos, pos0, motion, keep, args>>

\* utils._get_distance(a, b, d) raises
DistanceRaises ==
  /\ status = "idle"
  /\ \E a \in {1, 2}, d \in Directions :
       /\ distance_defined(pos, a, 3 - a, d)
       /\ get_distance_raises(pos, a, 3 - a, d)
       /\ stack' = <<Applied(a, 3 - a, d, "distance")>>
  /\ status' = "raised"
  /\ UNCHANGED <<body, shape, pos, pos0, motion, keep, args>>

\* a.avoid_overlapping(b, d, False) for a triangle and a circle at most 0.2
\* apart along each axis: the verdict of utils.triangle_circle
OverlapQuery ==
  /\ status = "idle"
  /\ \E a \in {1, 2}, d \in Directions :
       /\ Pair(a, 3 - a) \in {CircleTriangle, TriangleCircle}
       /\ Abs(pos[1][1] - pos[2][1]) <= Scale
       /\ Abs(pos[1][2] - pos[2][2]) <= Scale
       /\ stack' = <<Applied(a, 3 - a, d,
                             IF overlapping(pos, a, 3 - a) THEN "overlapping"
                             ELSE "apart")>>
  /\ status' = "applied"
  /\ UNCHANGED <<body, shape, pos, pos0, motion, keep, args>>

AheadNext ==
  \/ HandleCall
  \/ HandleRaises
  \/ DistanceCall
  \/ DistanceRaises
  \/ OverlapQuery

AheadSpec == AheadInit /\ [][AheadNext]_vars

\* ============================================================== the setters
\* The shape, scale and angle setters and plain moves applied to body 1, in
\* any order.
SetterScales == {Step, Step + Step \div 2, Scale}
SetterAngles == {0, 90, 180, 270}
SetterPositions == {<<x, y>> : x \in XS, y \in {BaseY, BaseY + Step}}

SetterInit ==
  /\ \E kind \in Kinds, sc \in SetterScales :
       /\ shape = [b \in Bodies |-> IF b = 1 THEN kind ELSE "square"]
       /\ body = [b \in Bodies |-> NewSprite(shape[b], IF b = 1 THEN sc ELSE Scale, 0)]
  /\ pos = [b \in Bodies |-> <<BaseX, BaseY>>]
  /\ pos0 = pos
  /\ motion = <<0, 0>>
  /\ keep = FALSE
  /\ args = [none |-> TRUE, others |-> <<>>]
  /\ stack = <<>>
  /\ status = "idle"

\* AbstractSprite.shape (setter): store the kind, rebuild the centred path
\* from the stored scale and angle
SetShape ==
  /\ \E kind \in Kinds :
       /\ shape' = [shape EXCEPT ![1] = kind]
       /\ body' = [body EXCEPT ![1].path =
                     reset_centered_path(kind, body[1].scale, body[1].angle)]
  /\ UNCHANGED <<pos, pos0, motion, keep, args, stack, status>>

\* AbstractSprite.scale (setter): scale the centred path by (s - self._scale),
\* then store s
SetScale ==
  /\ \E sc \in SetterScales :
       body' = [body EXCEPT
                  ![1].path.size = Times(body[1].path.size, sc - body[1].scale),
                  ![1].path.box = scale_box(body[1].path.box, sc - body[1].scale),
                  ![1].scale = sc]
  /\ UNCHANGED <<shape, pos, pos0, motion, keep, args, stack, status>>

\* AbstractSprite.angle (setter): rotate the centred path by (a - self._angle),
\* then store a
SetAngle ==
  /\ \E a \in SetterAngles :
       body' = [body EXCEPT
                  ![1].path.angle = (body[1].path.angle + a - body[1].angle) % 360,
                  ![1].path.box = rotate_box(body[1].path.box, a - body[1].angle),
                  ![1].angle = a]
  /\ UNCHANGED <<shape, pos, pos0, motion, keep, args, stack, status>>

\* Sprite.move(m, keep_in_frame=False, others=None): line 239 adds the motion.
\* The positions stay in SetterPositions.
MoveAlone ==
  /\ \E m \in {<<Step, 0>>, <<-Step, 0>>, <<0, Step>>, <<0, -Step>>} :
       /\ Shift(pos, 1, m)[1] \in SetterPositions
       /\ pos' = Shift(pos, 1, m)
  /\ UNCHANGED <<body, shape, pos0, motion, keep, args, stack, status>>

SetterNext ==
  \/ SetShape
  \/ SetScale
  \/ SetAngle
  \/ MoveAlone

SetterSpec == SetterInit /\ [][SetterNext]_vars

\* ================================================== sample_contained_position
\* The number of attempts of sample_contained_position (_MAX_TRIES in the
\* source) and the number of intervals into which each side of the bounding
\* box is divided to draw the samples
MaxTries == 3
SampleGrid == 4

\* Path.contains_point on the centred path of b: q is a point relative to the
\* position of b
path_contains_point(b, q) ==
  IF body[b].path.shape = "circle"
  THEN q[1] * q[1] + q[2] * q[2] <= half_extent(b) * half_extent(b)
  ELSE IF body[b].path.shape = "triangle"
  THEN /\ -extents(b)[2] <= q[2]
       /\ Cross(<<-extents(b)[1], -extents(b)[2]>>, <<0, extents(b)[4]>>, q) <= 0
       /\ Cross(<<0, extents(b)[4]>>, <<extents(b)[3], -extents(b)[2]>>, q) <= 0
  ELSE Abs(q[1]) <= half_extent(b) /\ Abs(q[2]) <= half_extent(b)

\* Sprite.contains_point
contains_point(p, b, point) ==
  path_contains_point(b, <<point[1] - p[b][1], point[2] - p[b][2]>>)

\* The values np.random.uniform(low, high) is drawn from: low and high are the
\* corners of the bounding box of the centred path
uniform(b) ==
  {<<-extents(b)[1] + (i * (extents(b)[1] + extents(b)[3])) \div SampleGrid,
     -extents(b)[2] + (j * (extents(b)[2] + extents(b)[4])) \div SampleGrid>> :
     i \in 0..SampleGrid, j \in 0..SampleGrid}

\* A faulty test of the sample: every sample is taken
accepts_any(p, b, sample) == TRUE

\* Line 263: if self.contains_point(sample)
accepts(p, b, sample) == contains_point(p, b, sample)

SampleInit ==
  /\ \E kind \in Kinds, sc \in {Step, Scale} :
       /\ shape = [b \in Bodies |-> IF b = 1 THEN kind ELSE "square"]
       /\ body = [b \in Bodies |-> NewSprite(shape[b], IF b = 1 THEN sc ELSE Scale, 0)]
  /\ \E q \in RowPositions :
       pos = [b \in Bodies |-> IF b = 1 THEN q ELSE <<BaseX, BaseY>>]
  /\ pos0 = pos
  /\ motion = <<0, 0>>
  /\ keep = FALSE
  /\ args = [none |-> TRUE, others |-> <<>>]
  /\ stack = <<>>
  /\ status = "idle"

\* sample_contained_position is called on body 1
SampleCall ==
  /\ status = "idle"
  /\ stack' = <<[self |-> 1, pc |-> "loop", tries |-> 0, sample |-> pos[1]]>>
  /\ status' = "running"
  /\ UNCHANGED <<body, shape, pos, pos0, motion, keep, args>>

\* One turn of the loop with a sample inside the shape: return sample
SampleReturn ==
  /\ status = "running" /\ Top.pc = "loop" /\ Top.tries < MaxTries
  /\ \E u \in uniform(Top.self) :
       LET sample == <<pos[Top.self][1] + u[1], pos[Top.self][2] + u[2]>>
       IN  /\ accepts(pos, Top.self, sample)
           /\ stack' = SetTop([Top EXCEPT !.pc = "returned", !.sample = sample])
  /\ status' = "done"
  /\ UNCHANGED <<body, shape, pos, pos0, motion, keep, args>>

\* One turn of the loop with a sample outside the shape
SampleMiss ==
  /\ status = "running" /\ Top.pc = "loop" /\ Top.tries < MaxTries
  /\ \E u \in uniform(Top.self) :
       LET sample == <<pos[Top.self][1] + u[1], pos[Top.self][2] + u[2]>>
       IN  /\ ~accepts(pos, Top.self, sample)
           /\ stack' = SetTop([Top EXCEPT !.tries = @ + 1, !.sample = sample])
  /\ UNCHANGED <<body, shape, pos, pos0, motion, keep, args, status>>

\* The loop is exhausted: raise ValueError
SampleRaise ==
  /\ status = "running" /\ Top.pc = "loop" /\ Top.tries = MaxTries
  /\ stack' = SetTop([Top EXCEPT !.pc = "raise"])
  /\ status' = "raised"
  /\ UNCHANGED <<body, shape, pos, pos0, motion, keep, args>>

SampleNext ==
  \/ SampleCall
  \/ SampleReturn
  \/ SampleMiss
  \/ SampleRaise

SampleSpec == SampleInit /\ [][SampleNext]_vars

\* ================================================================= properties
Range(seq) == {seq[i] : i \in 1..Len(seq)}

\* The overlap predicate of the shape pair (sprite.py lines 145-156), on p
Touches(p, a, b) ==
  IF shape[a] = "circle"
  THEN circle_circle(p[a], p[b], prop(a), prop(b))
  ELSE check_collision(p, a, b)

\* sprite.py line 225 for invocation f, on the current positions
PushCondition(f) ==
  \E r \in get_relative_positions(pos, f.self, f.cs) : opposite(r) = f.dir

\* The callee frame pushed by a recursive call of f on body c: c.move(motion,
\* keep_in_frame, others of f without c)
CalleeOf(f, g, c) ==
  /\ g.self = c /\ g.pc = "enter" /\ ~g.none
  /\ c \notin Range(g.others)
  /\ Len(g.others) = Len(f.others) - 1
  /\ \A x \in Range(f.others) \ {c} : x \in Range(g.others)

IsPrefix(s, t) == Len(s) <= Len(t) /\ SubSeq(t, 1, Len(s)) = s

\* ------------------------------------------------------------------------ C1
\* Scenario C: squares of side 0.2, A at (0.5, 0.5) moved by (0.1, 0) with
\* others = [B], B at (0.7, 0.5); the call has returned.
ScenarioC ==
  /\ shape[1] = "square"
  /\ pos0[1] = <<5 * Step, 5 * Step>>
  /\ pos0[2] = <<7 * Step, 5 * Step>>
  /\ motion = <<Step, 0>>
  /\ ~args.none /\ args.others = <<2>>
  /\ status = "done"

\* C1 as stated: in Scenario C both A and B end displaced by exactly (0.1, 0),
\* A's right bound equal to B's left bound.
C1_AsStated ==
  ScenarioC =>
    /\ pos[1] = <<6 * Step, 5 * Step>>
    /\ pos[2] = <<8 * Step, 5 * Step>>
    /\ bounds(pos, 1)[3] = bounds(pos, 2)[1]

\* C1: in Scenario C, B ends displaced by exactly (0.1, 0) and A by
\* (0.1 - 1e-5, 0): A's right bound is 1e-5 short of B's left bound and the two
\* squares do not intersect.
C1_ScenarioC ==
  ScenarioC =>
    /\ pos[1] = <<6 * Step - Eps, 5 * Step>>
    /\ pos[2] = <<8 * Step, 5 * Step>>
    /\ bounds(pos, 1)[3] + Eps = bounds(pos, 2)[1]
    /\ ~check_collision(pos, 1, 2)

C1_Witness == ScenarioC /\ pos[2] # pos0[2] /\ pos[1] # pos0[1]

\* ------------------------------------------------------------------------ C2
\* C2 as stated: when the direction is not the opposite of any relative position
\* of self with respect to C, the branch leaves self at the snapped position
\* (motion is not added).
C2_AsStated ==
  [][(Running /\ Top.pc = "branch" /\ ~PushCondition(Top))
       => pos'[Top.self] = pos[Top.self]]_vars

\* ------------------------------------------------------------------------ C3
\* What an invocation that took the push branch for C does, in order
PushLog(c) ==
  <<<<"rank", c>>, <<"snap", c>>, <<"commit", 0>>, <<"call", c>>,
    <<"return", c>>, <<"avoid", c>>>>

TookPush(f) == Len(f.log) >= 4 /\ f.log[4] = <<"call", f.cs>>

PushOrder(f) ==
  TookPush(f) =>
    /\ IF Len(f.log) <= Len(PushLog(f.cs))
       THEN IsPrefix(f.log, PushLog(f.cs))
       ELSE IsPrefix(PushLog(f.cs), f.log)
    /\ \A i \in (Len(PushLog(f.cs)) + 1)..Len(f.log) :
         f.log[i][2] # f.cs /\ f.log[i][1] \notin {"rank", "snap", "commit"}
    /\ f.pc \in {"secondary", "resolve_sec"} => Len(f.log) >= Len(PushLog(f.cs))

C3_PushStep ==
  (Running /\ Top.pc = "branch" /\ PushCondition(Top)) =>
    /\ pos' = Shift(pos, Top.self, motion)
    /\ Len(stack') = Depth + 1
    /\ stack'[Depth].pc = "resolve_cs"
    /\ CalleeOf(Top, stack'[Depth + 1], Top.cs)

\* C3: when the direction is the opposite of a relative position of self with
\* respect to C, self (already snapped to C) gets the full motion, then
\* C.move(motion, keep_in_frame, others without C) is called, and only after
\* that call has returned avoid_overlapping(C, direction) runs; each of the
\* four happens exactly once, in this order.
C3_PushOrder ==
  [][C3_PushStep /\ \A i \in 1..Len(stack') : PushOrder(stack'[i])]_vars

C3_Witness ==
  \E i \in 1..Depth :
    TookPush(stack[i]) /\ IsPrefix(PushLog(stack[i].cs), stack[i].log)

\* ------------------------------------------------------------------------ C4
\* The candidates of invocation f: the bodies of others the overlap predicate
\* accepts once self is displaced by motion
Candidates(f) ==
  {b \in Range(f.others) : Touches(Shift(pos, f.self, motion), f.self, b)}

\* C4: the body get_closest returns is a candidate whose distance along the
\* direction is at most that of every other candidate, and the list it returns
\* holds every other candidate exactly once and not the body returned.
C4_Closest ==
  \A i \in 1..Depth :
    stack[i].pc = "snap" =>
      LET f == stack[i]
      IN  /\ f.cs \in Candidates(f)
          /\ \A c \in Candidates(f) :
               get_distance(pos, f.self, f.cs, f.dir) <= get_distance(pos, f.self, c, f.dir)
          /\ Range(f.carried) = Candidates(f) \ {f.cs}
          /\ Len(f.carried) = Cardinality(Candidates(f)) - 1

C4_Witness ==
  /\ Running /\ Top.pc = "snap"
  /\ Len(Top.others) = 2 /\ Top.cs = Top.others[2] /\ Top.carried = <<Top.others[1]>>
  /\ get_distance(pos, Top.self, Top.cs, Top.dir)
       < get_distance(pos, Top.self, Top.others[1], Top.dir)

\* ------------------------------------------------------------------------ C5
C5_Step ==
  (Running /\ Top.pc = "secondary" /\ Top.carried # <<>>) =>
    /\ pos' = pos
    /\ IF Touches(pos, Top.self, Head(Top.carried))
       THEN /\ Len(stack') = Depth + 1
            /\ stack'[Depth].pc = "resolve_sec"
            /\ CalleeOf(Top, stack'[Depth + 1], Head(Top.carried))
       ELSE /\ Len(stack') = Depth
            /\ stack'[Depth].pc = "secondary"
            /\ stack'[Depth].carried = Tail(Top.carried)

\* In the history of an invocation every resolver run on a body follows the
\* return of that body's move, which follows its call
ResolveAfterReturn(f) ==
  \A i \in 1..Len(f.log) :
    /\ f.log[i][1] = "avoid" =>
         /\ i >= 3
         /\ f.log[i - 1] = <<"return", f.log[i][2]>>
         /\ f.log[i - 2] = <<"call", f.log[i][2]>>
    /\ (f.log[i][1] = "call" /\ i < Len(f.log)) =>
         f.log[i + 1] = <<"return", f.log[i][2]>>
    /\ (f.log[i][1] = "return" /\ i < Len(f.log)) =>
         f.log[i + 1] = <<"avoid", f.log[i][2]>>

\* C5: for a secondary carried body S, S.move(motion, keep_in_frame, others
\* without S) is called if and only if the overlap predicate between self and S
\* holds when S is examined; the resolver for S runs only after that call has
\* returned; when the predicate does not hold no position changes and S is
\* dropped.
C5_Secondary ==
  [][C5_Step /\ \A i \in 1..Len(stack') : ResolveAfterReturn(stack'[i])]_vars

C5_Witness ==
  \E i \in 1..Depth : \E k \in 3..Len(stack[i].log) :
    /\ stack[i].log[k][1] = "avoid"
    /\ stack[i].log[k][2] # stack[i].cs

\* ------------------------------------------------------------------------ C6
\* The motion is axis-aligned and not zero
AxisAligned(m) == (m[1] = 0) # (m[2] = 0)

C6_Step ==
  /\ (Running /\ Top.pc = "enter" /\ status' = "running"
        /\ (Top.none \/ (AxisAligned(motion) /\ Candidates(Top) = {})))
       => /\ pos' = [pos EXCEPT ![Top.self] =
                       <<pos[Top.self][1] + motion[1], pos[Top.self][2] + motion[2]>>]
          /\ Len(stack') = Depth
          /\ stack'[Depth].pc = "clamp"
  /\ (Running /\ Top.pc = "clamp")
       => \A b \in Bodies \ {Top.self} : pos'[b] = pos[b]

\* C6: when others is None, or no body of others passes the overlap predicate,
\* a move that returns leaves self (before the frame clamp) at exactly
\* position + motion and changes the position of no other body.
C6_PlainMove == [][C6_Step]_vars

C6_Witness ==
  /\ Running /\ Depth = 1 /\ Top.pc = "clamp"
  /\ shape[1] = "square" /\ ~Top.none /\ Len(Top.others) = 2
  /\ motion # <<0, 0>>
  /\ pos = [pos0 EXCEPT ![1] = <<pos0[1][1] + motion[1], pos0[1][2] + motion[2]>>]

\* ------------------------------------------------------------------------ C7
C7_Depth ==
  /\ \A i \in 2..Depth :
       /\ ~stack[i].none
       /\ Len(stack[i].others) = Len(stack[i - 1].others) - 1
  /\ Depth >= 1 => Depth <= 1 + Len(args.others)
  /\ Depth >= 1 => stack[1].others = args.others

\* C7: every recursive call of move gets an others list with exactly one
\* element less than the caller's, the nesting is at most 1 + the length of the
\* top-level others, and a started move comes to an end.
C7_Terminates ==
  []C7_Depth /\ (status = "running" ~> status \in {"done", "fatal", "raised"})

C7_Witness ==
  /\ Running /\ Len(args.others) = 2 /\ Depth = 3
  /\ stack[3].others = <<>>

C9_AsStated ==
  [][(Running /\ status' = "raised") => pos'[Top.self] = pos[Top.self]]_vars

\* ------------------------------------------------------------------------ C10
InvalidMotion(m) == (m[1] = 0 /\ m[2] = 0) \/ (m[1] # 0 /\ m[2] # 0)

\* C10 as stated: a motion that is zero or has two non-zero components ends the
\* move fatally with no position changed, whether or not others is given.
C10_AsStated ==
  (status # "idle" /\ InvalidMotion(motion)) =>
    /\ pos = pos0
    /\ status \in {"running", "fatal"}

\* ------------------------------------------------------------------------ C11
\* The bounds of b lie in the frame on both axes
InFrame(p, b) ==
  /\ 0 <= bounds(p, b)[1] /\ bounds(p, b)[3] <= FrameMax
  /\ 0 <= bounds(p, b)[2] /\ bounds(p, b)[4] <= FrameMax

C11_Step ==
  /\ \A b \in Bodies : pos'[b] # pos[b] => (Running /\ Top.self = b)
  /\ (Running /\ keep /\ Len(stack') < Depth /\ status' \in {"running", "done"})
       => InFrame(pos', Top.self)

C11_Final ==
  (status = "done" /\ keep) =>
    /\ InFrame(pos, 1)
    /\ \A b \in Bodies : pos[b] # pos0[b] => InFrame(pos, b)

\* C11: a move with keep_in_frame that returns leaves the bounds of its body
\* inside [0, 1] on both axes, and a position is only ever changed by the
\* body's own move, so every body moved during the call ends inside the frame.
C11_KeptInFrame == [][C11_Step]_vars /\ []C11_Final

C11_Witness ==
  /\ status = "done" /\ keep /\ shape[1] = "square"
  /\ motion = <<Step, 0>> /\ args.others = <<2>>
  /\ pos0[2][1] + Step + Scale \div 2 > FrameMax
  /\ bounds(pos, 2)[3] = FrameMax
  /\ pos[1][1] = pos0[1][1] + Step - Eps

\* ------------------------------------------------------------------------ C12
\* The invocation on top of the stack is at lines 241-243
AtClamp ==
  /\ Running
  /\ Top.pc = "clamp" \/ (Top.pc = "secondary" /\ Top.carried = <<>>)

\* C12: the clamp at the end of move leaves the position of a body whose
\* bounds already lie in the frame as it is.
C12_ClampNoOp ==
  [][(AtClamp /\ InFrame(pos, Top.self)) => pos' = pos]_vars

C12_Witness ==
  /\ status = "done" /\ keep /\ args.none
  /\ motion = <<Step, 0>>
  /\ pos[1] = <<pos0[1][1] + Step, pos0[1][2]>>
  /\ bounds(pos, 1)[3] = FrameMax

\* ------------------------------------------------------------------------ C13
\* A resolver call on top of the stack has returned
Resolved == status = "applied" /\ Top.pc = "resolved"
ResolvedTwice == status = "applied" /\ Top.pc = "resolved_twice"

\* C13 as stated: after one application of the resolver the two polygons no
\* longer share a point, and a second application leaves the positions as the
\* first one left them.
C13_AsStated ==
  /\ Resolved => ~check_collision(pos, Top.self, Top.cs)
  /\ ResolvedTwice => pos = pos0

\* ------------------------------------------------------------------------ C14
\* What resolve_overlapping(a, b, d) adds to the position of a
Displacement(p, a, b, d) ==
  <<resolve_overlapping(p, a, b, d)[a][1] - p[a][1],
    resolve_overlapping(p, a, b, d)[a][2] - p[a][2]>>

\* C14 as stated: from one configuration, the displacement of the first body
\* in a direction is the negation of the displacement of the second body in
\* the opposite direction.
C14_AsStated ==
  (/\ Resolved
   /\ resolve_defined(pos0, Top.cs, Top.self, opposite(Top.dir))
   /\ ~resolve_overlapping_raises(pos0, Top.cs, Top.self))
  => LET mine   == Displacement(pos0, Top.self, Top.cs, Top.dir)
         theirs == Displacement(pos0, Top.cs, Top.self, opposite(Top.dir))
     IN  mine = <<-theirs[1], -theirs[2]>>

\* ------------------------------------------------------------------------ C15
\* Scenario A: squares of side 0.1 at (0.50, 0.50) and (0.55, 0.50)
ScenarioA(p) ==
  /\ Pair(1, 2) = SquareSquare
  /\ body[1].scale = Step /\ body[2].scale = Step
  /\ p[1] = <<5 * Step, 5 * Step>>
  /\ p[2] = <<5 * Step + Step \div 2, 5 * Step>>

\* The first body of scenario A has been resolved against the second, rightwards
ScenarioAResolved ==
  Resolved /\ ScenarioA(pos0) /\ Top.self = 1 /\ Top.dir = "right"

\* C15: in scenario A the resolver changes the x coordinate of the first body
\* and nothing else, and leaves its right bound Eps below the left bound of
\* the second.
C15_ScenarioA ==
  ScenarioAResolved =>
    /\ pos[1][1] # pos0[1][1]
    /\ pos[1][2] = pos0[1][2]
    /\ \A b \in Bodies \ {1} : pos[b] = pos0[b]
    /\ bounds(pos, 1)[3] = bounds(pos, 2)[1] - Eps

C15_Witness ==
  /\ ScenarioAResolved
  /\ pos[1] = <<5 * Step - Step \div 2 - Eps, 5 * Step>>

\* ------------------------------------------------------------------------ C16
\* Scenario B: circles of radius 0.05, both at (0.3, 0.3)
ScenarioB(p) ==
  /\ Pair(1, 2) = CircleCircle
  /\ prop(1) = Step \div 2 /\ prop(2) = Step \div 2
  /\ p[1] = <<3 * Step, 3 * Step>>
  /\ p[2] = <<3 * Step, 3 * Step>>

\* C16 as stated: in scenario B handle_collision upwards does not raise.
C16_AsStated ==
  ~(/\ status = "raised" /\ Top.pc = "snap"
    /\ ScenarioB(pos0) /\ Top.dir = "up")

\* ------------------------------------------------------------------------ C17
\* A dispatch has been entered with a body whose kind is not one of the three
UnmatchedDispatch ==
  /\ status # "idle" /\ stack # <<>>
  /\ Top.pc \in Dispatches
  /\ Pair(Top.self, Top.cs) \notin Kinds \X Kinds

\* C17 as stated: every dispatch entered with a body of another kind ends the
\* run by exit, and no position has changed.
C17_AsStated == UnmatchedDispatch => (status = "fatal" /\ pos = pos0)

\* ------------------------------------------------------------------------ C18
\* C18 as stated: the centred path of a body, and with it its vertices, is the
\* canonical outline of its current shape at its current scale and angle.
C18_AsStated ==
  \A b \in Bodies :
    body[b].path = reset_centered_path(shape[b], body[b].scale, body[b].angle)

\* ------------------------------------------------------------------------ C19
\* C19 as stated: prop of a circle or a square is the value that
\* _geometrical_properties derives from the current shape and polygon.
C19_AsStated ==
  \A b \in Bodies :
    shape[b] \in {"circle", "square"} =>
      prop(b) = geometrical_properties(shape[b], body[b].path, prop(b))

\* ------------------------------------------------------------------------ C20
\* C20: a point that sample_contained_position returns satisfies
\* contains_point; it raises exactly when every one of its MaxTries samples
\* was outside the shape (tries counts them); returning or raising, it leaves
\* the positions as they were.
C20_Sample ==
  /\ status = "done" => (contains_point(pos, Top.self, Top.sample)
                          /\ Top.tries < MaxTries)
  /\ status = "raised" => (Top.tries = MaxTries
                            /\ ~contains_point(pos, Top.self, Top.sample))
  /\ status \in {"running", "done", "raised"} => pos = pos0

\* A sample is returned after two samples outside the shape
C20_Witness ==
  /\ status = "done" /\ Top.pc = "returned" /\ Top.tries = 2
  /\ shape[1] = "triangle"
  /\ contains_point(pos, 1, Top.sample) /\ Top.sample # pos[1]

\* ------------------------------------------------------------------ C21
\* The distance from the leading bound of a to the facing bound of b along d
Gap(p, a, b, d) ==
  CASE d = "down"  -> bounds(p, a)[2] - bounds(p, b)[4]
    [] d = "up"    -> bounds(p, b)[2] - bounds(p, a)[4]
    [] d = "right" -> bounds(p, b)[1] - bounds(p, a)[3]
    [] d = "left"  -> bounds(p, a)[1] - bounds(p, b)[3]

\* Body a has moved from p to q along d and along nothing else
MovedAlong(p, q, a, d) ==
  CASE d = "down"  -> q[a][1] = p[a][1] /\ q[a][2] < p[a][2]
    [] d = "up"    -> q[a][1] = p[a][1] /\ q[a][2] > p[a][2]
    [] d = "right" -> q[a][2] = p[a][2] /\ q[a][1] > p[a][1]
    [] d = "left"  -> q[a][2] = p[a][2] /\ q[a][1] < p[a][1]

Snapped == status = "applied" /\ Top.pc = "snapped"

\* C21: in every sub-case that handle_collision decides from the two bounding
\* boxes alone, with other ahead of self along direction, the call leaves
\* self's leading bound on other's facing bound (gap 0), and self has moved in
\* the direction of motion when the gap was positive.
C21_AsStated ==
  (/\ Snapped
   /\ Pair(Top.self, Top.cs) \in {SquareSquare, TriangleTriangle, CircleTriangle}
   /\ Gap(pos0, Top.self, Top.cs, Top.dir) >= 0)
  => /\ Gap(pos, Top.self, Top.cs, Top.dir) = 0
     /\ Gap(pos0, Top.self, Top.cs, Top.dir) > 0
          => MovedAlong(pos0, pos, Top.self, Top.dir)

\* ------------------------------------------------------------------ C22
Measured == status = "applied" /\ Top.pc = "distance"

\* C22: a distance query on a body that lies ahead along direction with a
\* strictly positive gap returns a strictly positive value, and in the
\* sub-cases decided by the bounding boxes that value is the gap.
C22_AsStated ==
  (Measured /\ Gap(pos, Top.self, Top.cs, Top.dir) > 0)
  => /\ Top.log[1][2] > 0
     /\ Top.log[1][2] = Gap(pos, Top.self, Top.cs, Top.dir)

\* ------------------------------------------------------------------ C23
\* C23: a distance query returns a number on every path: it never raises.
C23_AsStated == ~(status = "raised" /\ Top.pc = "distance")

\* ------------------------------------------------------------------ C24
\* C24: when the auxiliary intersection of the resolver or of the snapper is
\* empty, as it is for two circles with coincident centres, the call returns
\* without an error and the mover is where it was.
C24_AsStated ==
  (/\ status \in {"applied", "raised"}
   /\ Top.pc \in {"resolve", "resolved", "snap", "snapped"}
   /\ Pair(1, 2) = CircleCircle
   /\ pos0[1] = pos0[2])
  => (status = "applied" /\ pos = pos0)

\* ------------------------------------------------------------------ C25
\* The point c lies in the closed triangle t (vertices counter-clockwise)
InTriangle(p, t, c) ==
  \A i \in 1..3 : Cross(vertices(p, t)[i], vertices(p, t)[(i % 3) + 1], c) >= 0

\* C25: the triangle/circle predicate is true whenever the centre of the
\* circle lies inside the triangle.
C25_AsStated ==
  (/\ status = "applied"
   /\ Top.pc \in {"overlapping", "apart"}
   /\ LET t == IF shape[1] = "triangle" THEN 1 ELSE 2
      IN  InTriangle(pos, t, pos[3 - t]))
  => Top.pc = "overlapping"

\* The centre-inside test of the predicate accepts no centre outside the
\* triangle
CentreTestSound ==
  (status = "applied" /\ Top.pc \in {"overlapping", "apart"})
  => LET t == IF shape[1] = "triangle" THEN 1 ELSE 2
     IN  centre_within(vertices(pos, t), pos[3 - t]) => InTriangle(pos, t, pos[3 - t])

\* ------------------------------------------------------------------ C26
\* The carried candidates of the innermost invocation, once ranked
Carried(f) == {f.cs} \cup Range(f.carried)

\* C26: the carried candidates are exactly the bodies of others for which the
\* overlap predicate is true with self displaced by motion and false with self
\* where it is; a body for which it is false at the displaced position is no
\* candidate.
C26_AsStated ==
  (Running /\ Top.pc = "snap")
  => \A b \in Range(Top.others) :
       b \in Carried(Top)
         <=> /\ overlapping(Shift(pos, Top.self, motion), Top.self, b)
             /\ ~overlapping(pos, Top.self, b)

\* The candidates are the bodies for which the predicate is true at the
\* displaced position, whatever it is at the present one
CarriedAreDisplacedOverlaps ==
  (Running /\ Top.pc = "snap")
  => \A b \in Range(Top.others) :
       b \in Carried(Top) <=> overlapping(Shift(pos, Top.self, motion), Top.self, b)

\* ------------------------------------------------------------------ C27
\* C27: while an invocation of move on a body is in progress, no nested
\* invocation is on that body and that body is in the others list of no
\* invocation in progress, its own included: a pushed body never pushes its
\* pusher back.
C27_NoReentry ==
  \A i \in 1..Depth : \A j \in i..Depth :
    /\ stack[i].self \notin Range(stack[j].others)
    /\ i < j => stack[i].self # stack[j].self

\* A pushed body, handed a non-empty list, pushes a third one
C27_Witness ==
  /\ Running /\ Depth = 3
  /\ stack[2].others # <<>>
  /\ stack[3].others = <<>>

\* ------------------------------------------------------------------ C29
\* C29: during one top-level move, move is invoked at most once on each body:
\* the body of an invocation that has just been entered is not one whose move
\* was invoked and returned earlier in the same top-level call.
C29_AsStated ==
  Running => \A i \in 1..(Depth - 1) : Top.self \notin stack[i].moved

\* ------------------------------------------------------------------ C28
\* self and the bodies of others of the top-level call
Involved == {1} \cup Range(args.others)

\* A top-level move of a square among squares, along an axis, that started
\* with every two of the bodies involved a strictly positive gap apart
ApartSquares ==
  /\ shape[1] = "square"
  /\ ~args.none
  /\ AxisAligned(motion)
  /\ \A a \in Involved : \A b \in Involved \ {a} : ~boxes_meet(pos0, a, b)

\* C28: from axis-aligned squares that are pairwise a strictly positive gap
\* apart, a top-level move along an axis with self not in others returns with
\* no two of self and others overlapping.
C28_AsStated ==
  (status = "done" /\ ApartSquares)
  => \A a \in Involved : \A b \in Involved \ {a} : ~check_collision(pos, a, b)

\* ------------------------------------------------------------------ C30
C30_Step ==
  (status' = "applied" /\ stack'[1].pc \in {"resolved", "resolved_twice", "snapped"})
  => /\ body' = body
     /\ shape' = shape
     /\ \A b \in Bodies \ {stack'[1].self} : pos'[b] = pos[b]
     /\ IF stack'[1].dir \in {"up", "down"}
        THEN pos'[stack'[1].self][1] = pos[stack'[1].self][1]
        ELSE pos'[stack'[1].self][2] = pos[stack'[1].self][2]

====
